---- MODULE Spec2Model ----
(***************************************************************************)
(* Range-aware streaming proxy of FileStream/server/stream_routes.py.     *)
(* Every HTTP request is one task; the tasks interleave at their awaits   *)
(* (db.get_file, bot.get_messages, each chunk of bot.stream_media, each    *)
(* yield to the HTTP transport).  Bytes are scaled down: sizes, offsets    *)
(* and chunk lengths are small naturals.  Text (the Range header, the      *)
(* Content-Range and Content-Length values) is a sequence of one-character *)
(* strings, parsed and formatted the way the Python code does it.          *)
(***************************************************************************)
EXTENDS Integers, Sequences, FiniteSets, TLC

VARIABLES
    task,       \* per request: the locals of the handler and of media_streamer
    response,   \* per request: the web.Response the handler returned
    body,       \* per request: the chunks written to the response body
    upstream    \* per request: the calls made to the collaborators

vars == <<task, response, body, upstream>>

\* ------------------------------------------------------------------ bounds
\* Largest number a client writes into a "bytes=a-b" Range header.
MaxNum == 3
\* Largest length of one chunk the upstream producer delivers.
MaxChunkLen == 2
\* Largest number of chunks the upstream producer delivers on one request.
MaxChunks == 3

\* The request slots; a specification activates some of them.
Reqs == {1, 2}

\* ------------------------------------------------------------------ text
Digits == <<"0", "1", "2", "3", "4", "5", "6", "7", "8", "9">>

DigitChars == {Digits[i] : i \in 1..10}

DigitVal(c) == (CHOOSE i \in 1..10 : Digits[i] = c) - 1

\* str(n) of a non-negative int: its decimal digits.
RECURSIVE StrNat(_)
StrNat(n) == IF n < 10 THEN <<Digits[n + 1]>>
             ELSE StrNat(n \div 10) \o <<Digits[(n % 10) + 1]>>

\* str(n) as the f-strings and str() of the handler format an int.
Str(n) == IF n < 0 THEN <<"-">> \o StrNat(0 - n) ELSE StrNat(n)

\* s.replace(pat, ""): every non-overlapping occurrence, left to right.
RECURSIVE Remove(_, _)
Remove(s, pat) ==
    IF Len(s) < Len(pat) THEN s
    ELSE IF SubSeq(s, 1, Len(pat)) = pat
         THEN Remove(SubSeq(s, Len(pat) + 1, Len(s)), pat)
         ELSE <<Head(s)>> \o Remove(Tail(s), pat)

\* s.split(sep) for a one-character sep: the list of parts, empty parts kept.
RECURSIVE Split(_, _)
Split(s, sep) ==
    IF \A i \in 1..Len(s) : s[i] # sep THEN <<s>>
    ELSE LET k == CHOOSE i \in 1..Len(s) :
                      s[i] = sep /\ \A j \in 1..(i - 1) : s[j] # sep
         IN  <<SubSeq(s, 1, k - 1)>> \o Split(SubSeq(s, k + 1, Len(s)), sep)

\* int(s) raises ValueError unless s is a non-empty run of decimal digits
\* (over the characters the modelled clients send).
IntRaises(s) == Len(s) = 0 \/ \E i \in 1..Len(s) : s[i] \notin DigitChars

RECURSIVE IntVal(_)
IntVal(s) == IF Len(s) = 0 THEN 0
             ELSE IntVal(SubSeq(s, 1, Len(s) - 1)) * 10 + DigitVal(s[Len(s)])

BytesEq == <<"b", "y", "t", "e", "s", "=">>

\* ------------------------------------------------------- collaborators
\* A record of the lookup store: the keys it carries and their values.
\* found = FALSE is the None that db.get_file returns for an unknown id.
NoRecord ==
    [found |-> FALSE, keys |-> {}, file_id |-> 0, message_id |-> 0,
     file_size |-> 0, file_name |-> ""]

\* The lookup store: four stored records and one id without a record.
\*   f1 carries file_id, file_size and file_name;
\*   f2 carries message_id only (size and name are defaulted on fallback);
\*   f3 carries neither file_id nor message_id;
\*   f4 carries a falsy file_id, a message_id and file_size.
DB ==
    [i \in {"f1", "f2", "f3", "f4", "nx"} |->
        CASE i = "f1" -> [found |-> TRUE, keys |-> {"file_id", "file_size", "file_name"},
                          file_id |-> 11, message_id |-> 0,
                          file_size |-> 3, file_name |-> "a.mkv"]
          [] i = "f2" -> [found |-> TRUE, keys |-> {"message_id"},
                          file_id |-> 0, message_id |-> 12,
                          file_size |-> 0, file_name |-> ""]
          [] i = "f3" -> [found |-> TRUE, keys |-> {"file_size"},
                          file_id |-> 0, message_id |-> 0,
                          file_size |-> 2, file_name |-> ""]
          [] i = "f4" -> [found |-> TRUE, keys |-> {"file_id", "message_id", "file_size"},
                          file_id |-> 0, message_id |-> 14,
                          file_size |-> 2, file_name |-> ""]
          [] OTHER    -> NoRecord]

Ids == DOMAIN DB

\* The media object of the upstream message msg_id, as bot.get_messages
\* returns it when it succeeds.  has_name = FALSE: the media kind has no
\* file_name attribute; mime_type = "": the attribute is None.
Media(msg_id) ==
    CASE msg_id = 11 -> [file_size |-> 3, has_name |-> TRUE, file_name |-> "a.mkv",
                         mime_type |-> "video/x-matroska"]
      [] msg_id = 14 -> [file_size |-> 2, has_name |-> TRUE, file_name |-> "b.mp4",
                         mime_type |-> "video/mp4"]
      [] OTHER       -> [file_size |-> 2, has_name |-> FALSE, file_name |-> "",
                         mime_type |-> ""]

\* The exception classes the chunk producer raises.
ErrorClasses ==
    {"FloodWait", "OffsetInvalid", "RPCError", "OSError",
     "ConnectionResetError", "BrokenPipeError", "Exception"}

\* ------------------------------------------------------ request inputs
Hdr(text) == [present |-> TRUE, text |-> text]

\* No Range header on the request.
Absent == [present |-> FALSE, text |-> <<>>]

\* bytes=a-b
Closed(a, b) == Hdr(BytesEq \o Str(a) \o <<"-">> \o Str(b))

\* bytes=a-
Open(a) == Hdr(BytesEq \o Str(a) \o <<"-">>)

\* bytes=-b
Suffix(b) == Hdr(BytesEq \o <<"-">> \o Str(b))

\* Headers that are not of the form bytes=<digits>-[<digits>].
Malformed ==
    {Suffix(b) : b \in 0..MaxNum} \cup
    {Hdr(BytesEq \o <<"x", "-", "1">>),
     Hdr(BytesEq \o <<"0", "-", "x">>),
     Hdr(BytesEq \o <<"0", "-", "1", "-", "2">>),
     Hdr(BytesEq \o <<"-", "1", "-", "2">>),
     Hdr(BytesEq \o <<"0", "-", "0", ",", "1", "-", "1">>),
     Hdr(BytesEq \o <<"1">>),
     Hdr(BytesEq)}

\* The Range headers the modelled clients send.
RangeHeaders ==
    {Absent, Hdr(<<>>)} \cup
    {Closed(a, b) : a, b \in 0..MaxNum} \cup
    {Closed(0, 10), Closed(10, 11)} \cup
    {Open(a) : a \in 0..MaxNum} \cup
    Malformed

StreamRoutes == {"/stream/", "/watch/", "/dl/"}

\* ------------------------------------------------------------ responses
\* Mutant of cors_headers: OPTIONS is not among the allowed methods.
CorsWithoutOptions ==
    [AllowOrigin |-> "*",
     AllowMethods |-> "GET, POST, HEAD",
     AllowHeaders |-> "Content-Type, Range, User-Agent, X-Requested-With",
     ExposeHeaders |-> "Content-Length, Content-Range, Content-Disposition",
     MaxAge |-> "86400"]

cors_headers ==
    [AllowOrigin |-> "*",
     AllowMethods |-> "GET, POST, OPTIONS, HEAD",
     AllowHeaders |-> "Content-Type, Range, User-Agent, X-Requested-With",
     ExposeHeaders |-> "Content-Length, Content-Range, Content-Disposition",
     MaxAge |-> "86400"]

\* A response built without cors_headers().
NoCors ==
    [AllowOrigin |-> "", AllowMethods |-> "", AllowHeaders |-> "",
     ExposeHeaders |-> "", MaxAge |-> ""]

\* The content headers a response may carry; <<>> and "" are "not set".
NoContent ==
    [ContentType |-> "", ContentRange |-> <<>>, ContentLength |-> <<>>,
     Disposition |-> "", FileName |-> "", AcceptRanges |-> ""]

Response(status, payload, cors, content) ==
    [status |-> status, body |-> payload, cors |-> cors, content |-> content]

\* No response returned yet.
NoResponse == Response(0, "", NoCors, NoContent)

\* ------------------------------------------- stream_handler, step by step
\* Mutant of NotFound: the handler goes on without a record.
NotFoundNever(file_data) == FALSE

\* `if not file_data`: None (and an empty record) is not found.
NotFound(file_data) == ~file_data.found

\* file_data.get('file_id') or file_data.get('message_id'): the first of
\* the two that is present and truthy, else the second; some = FALSE is None.
MsgRef(file_data) ==
    IF "file_id" \in file_data.keys /\ file_data.file_id # 0
    THEN [some |-> TRUE, val |-> file_data.file_id]
    ELSE IF "message_id" \in file_data.keys
         THEN [some |-> TRUE, val |-> file_data.message_id]
         ELSE [some |-> FALSE, val |-> 0]

\* int(None) raises TypeError.
MsgIdRaises(file_data) == ~MsgRef(file_data).some

\* The properties read off the live message.
LiveMeta(media) ==
    [file_size |-> media.file_size,
     file_name |-> IF media.has_name THEN media.file_name ELSE "video.mp4",
     mime_type |-> IF media.mime_type = "" THEN "video/mp4" ELSE media.mime_type,
     msg |-> "Message"]

\* Mutant of FallbackMeta: the stored size is not read.
FallbackMetaNoSize(file_data) ==
    [file_size |-> 0,
     file_name |-> IF "file_name" \in file_data.keys THEN file_data.file_name
                   ELSE "video.mp4",
     mime_type |-> "video/mp4",
     msg |-> "None"]

\* Mutant of FallbackMeta: another default type than the live path's.
FallbackMetaOctetStream(file_data) ==
    [file_size |-> IF "file_size" \in file_data.keys THEN file_data.file_size ELSE 0,
     file_name |-> IF "file_name" \in file_data.keys THEN file_data.file_name
                   ELSE "video.mp4",
     mime_type |-> "application/octet-stream",
     msg |-> "None"]

\* The except branch: the stored fields, defaulted, and no message.
FallbackMeta(file_data) ==
    [file_size |-> IF "file_size" \in file_data.keys THEN file_data.file_size ELSE 0,
     file_name |-> IF "file_name" \in file_data.keys THEN file_data.file_name
                   ELSE "video.mp4",
     mime_type |-> "video/mp4",
     msg |-> "None"]

\* Truthiness of request.headers.get("Range", 0).
Truthy(range_header) == range_header.present /\ range_header.text # <<>>

\* The parts of range_header.replace("bytes=", "").split("-").
RangeParts(range_header) == Split(Remove(range_header.text, BytesEq), "-")

\* Mutant of ParseRange: an open-ended range runs to file_size.
ParseRangeOpenToSize(range_header, file_size) ==
    IF Truthy(range_header)
    THEN LET parts == RangeParts(range_header)
         IN  IF Len(parts) # 2
             THEN [raises |-> TRUE, from_bytes |-> 0, until_bytes |-> 0]
             ELSE IF IntRaises(parts[1]) \/ (parts[2] # <<>> /\ IntRaises(parts[2]))
                  THEN [raises |-> TRUE, from_bytes |-> 0, until_bytes |-> 0]
                  ELSE [raises |-> FALSE,
                        from_bytes |-> IntVal(parts[1]),
                        until_bytes |-> IF parts[2] # <<>> THEN IntVal(parts[2])
                                        ELSE file_size]
    ELSE [raises |-> FALSE, from_bytes |-> 0, until_bytes |-> file_size - 1]

\* from_bytes, until_bytes of the handler, or raises = TRUE for the ValueError
\* of the tuple unpacking or of int().
ParseRange(range_header, file_size) ==
    IF Truthy(range_header)
    THEN LET parts == RangeParts(range_header)
         IN  IF Len(parts) # 2
             THEN [raises |-> TRUE, from_bytes |-> 0, until_bytes |-> 0]
             ELSE IF IntRaises(parts[1]) \/ (parts[2] # <<>> /\ IntRaises(parts[2]))
                  THEN [raises |-> TRUE, from_bytes |-> 0, until_bytes |-> 0]
                  ELSE [raises |-> FALSE,
                        from_bytes |-> IntVal(parts[1]),
                        until_bytes |-> IF parts[2] # <<>> THEN IntVal(parts[2])
                                        ELSE file_size - 1]
    ELSE [raises |-> FALSE, from_bytes |-> 0, until_bytes |-> file_size - 1]

\* Mutant of Unsatisfiable: until_bytes = file_size passes.
UnsatisfiableOffByOne(from_bytes, until_bytes, file_size) ==
    (until_bytes > file_size) \/ (from_bytes < 0) \/ (until_bytes < from_bytes)

\* Strict Validation.
Unsatisfiable(from_bytes, until_bytes, file_size) ==
    (until_bytes >= file_size) \/ (from_bytes < 0) \/ (until_bytes < from_bytes)

\* Mutant of ReqLength: the length of a half-open interval.
ReqLengthHalfOpen(from_bytes, until_bytes) == until_bytes - from_bytes

ReqLength(from_bytes, until_bytes) == until_bytes - from_bytes + 1

Disposition(route) == IF route = "/dl/" THEN "attachment" ELSE "inline"

BytesSp == <<"b", "y", "t", "e", "s", " ">>

\* f"bytes {from_bytes}-{until_bytes}/{file_size}"
ContentRange(from_bytes, until_bytes, file_size) ==
    BytesSp \o Str(from_bytes) \o <<"-">> \o Str(until_bytes) \o <<"/">> \o Str(file_size)

\* f"bytes */{file_size}"
UnsatisfiedRange(file_size) == BytesSp \o <<"*", "/">> \o Str(file_size)

\* The headers.update({...}) of the handler.
ContentHeaders(t) ==
    [ContentType |-> t.mime_type,
     ContentRange |-> ContentRange(t.from_bytes, t.until_bytes, t.file_size),
     ContentLength |-> Str(ReqLength(t.from_bytes, t.until_bytes)),
     Disposition |-> Disposition(t.route),
     FileName |-> t.file_name,
     AcceptRanges |-> "bytes"]

\* Mutant of StreamStatus: an empty Range header counts as a range request.
StreamStatusIfPresent(range_header) == IF range_header.present THEN 206 ELSE 200

\* status=206 if range_header else 200
StreamStatus(range_header) == IF Truthy(range_header) THEN 206 ELSE 200

\* The 404 of stream_handler and of api_handler.
NotFoundResponse == Response(404, "File Not Found", cors_headers, NoContent)

\* Mutant of ServerError: the 500 is built without cors_headers().
ServerErrorNoCors == Response(500, "Server Error", NoCors, NoContent)

\* The outer except of stream_handler and of api_handler.
ServerError == Response(500, "Server Error", cors_headers, NoContent)

\* f"Server Error: {e}" for an exception of class e.
ErrorText(e) ==
    CASE e = "TypeError"  -> "Server Error: TypeError"
      [] e = "ValueError" -> "Server Error: ValueError"
      [] OTHER            -> "Server Error: Exception"

\* The 500 of the outer except for the exception e it caught.
ServerErrorOf(e) == [ServerError EXCEPT !.body = ErrorText(e)]

\* The 416 of the strict validation (built without cors_headers()).
RangeNotSatisfiable(file_size) ==
    Response(416, "416: Range not satisfiable", NoCors,
             [NoContent EXCEPT !.ContentRange = UnsatisfiedRange(file_size)])

\* ------------------------------------------------------ media_streamer
\* Mutant of Swallowed: the named classes only, without `except Exception`.
SwallowedNamedOnly(e) ==
    \/ e \in {"RPCError", "OffsetInvalid", "FloodWait"}
    \/ e \in {"OSError", "ConnectionResetError", "BrokenPipeError"}

\* The except clauses around the async for: every Exception is passed over.
Swallowed(e) ==
    \/ e \in {"RPCError", "OffsetInvalid", "FloodWait"}
    \/ e \in {"OSError", "ConnectionResetError", "BrokenPipeError"}
    \/ e \in ErrorClasses

\* Mutant of BudgetReached: the loop goes on at total_yielded = req_length.
BudgetExceeded(total_yielded, req_length) == total_yielded > req_length

\* Safety Break.
BudgetReached(total_yielded, req_length) == total_yielded >= req_length

\* ---------------------------------------------------------------- state
IdleTask ==
    [pc |-> "idle", method |-> "", route |-> "", id |-> "",
     range_header |-> Absent, file_data |-> NoRecord, msg_id |-> 0,
     live |-> "", msg |-> "None", file_size |-> 0, file_name |-> "",
     mime_type |-> "", parsed |-> FALSE, from_bytes |-> 0, until_bytes |-> 0,
     req_length |-> 0, message_to_stream |-> "None", total_yielded |-> 0,
     chunk |-> [seq |-> 0, len |-> 0], ended |-> "", raised |-> FALSE]

NoCalls ==
    [get_file |-> 0, lookup |-> "", get_messages |-> 0, stream_media |-> 0,
     offset |-> 0, limit |-> 0, delivered |-> <<>>]

Init ==
    /\ task = [r \in Reqs |-> IdleTask]
    /\ response = [r \in Reqs |-> NoResponse]
    /\ body = [r \in Reqs |-> <<>>]
    /\ upstream = [r \in Reqs |-> NoCalls]

\* The handler returns resp and the task is over.
Return(r, resp) ==
    /\ response' = [response EXCEPT ![r] = resp]
    /\ task' = [task EXCEPT ![r].pc = "done"]

\* -------------------------------------------------------------- actions
\* OPTIONS /stream|/watch|/dl/{id}: stream_options_handler.
OptionsRequest(r, w) ==
    /\ task[r].pc = "idle"
    /\ \E route \in w.routes, id \in w.ids, h \in {Absent, Closed(0, 0)} :
          task' = [task EXCEPT ![r] = [@ EXCEPT !.pc = "done", !.method = "OPTIONS",
                                          !.route = route, !.id = id,
                                          !.range_header = h]]
    /\ response' = [response EXCEPT ![r] = Response(200, "", cors_headers, NoContent)]
    /\ UNCHANGED <<body, upstream>>

\* GET /api/file/{id}: api_handler up to its await of db.get_file.
ApiRequest(r, w) ==
    /\ task[r].pc = "idle"
    /\ \E id \in w.ids, h \in {Absent, Closed(0, 0)} :
          task' = [task EXCEPT ![r] = [@ EXCEPT !.pc = "api_get_file", !.method = "GET",
                                          !.route = "/api/file/", !.id = id,
                                          !.range_header = h]]
    /\ upstream' = [upstream EXCEPT ![r].get_file = @ + 1]
    /\ UNCHANGED <<response, body>>

\* db.get_file returns (or raises) in api_handler; the rest of the handler.
ApiGetFileReturn(r) ==
    /\ task[r].pc = "api_get_file"
    /\ \E raises \in BOOLEAN :
          IF raises
          THEN /\ Return(r, ServerErrorOf("Exception"))
               /\ upstream' = [upstream EXCEPT ![r].lookup = "raised"]
          ELSE LET file_data == DB[task[r].id]
               IN  /\ task' = [task EXCEPT ![r] = [@ EXCEPT !.pc = "done",
                                                      !.file_data = file_data]]
                   /\ response' = [response EXCEPT ![r] =
                          IF NotFound(file_data) THEN NotFoundResponse
                          ELSE Response(200, "json", cors_headers, NoContent)]
                   /\ upstream' = [upstream EXCEPT ![r].lookup =
                          IF file_data.found THEN "record" ELSE "None"]
    /\ UNCHANGED body

\* GET /stream|/watch|/dl/{id}: stream_handler up to its await of db.get_file.
StreamRequest(r, w) ==
    /\ task[r].pc = "idle"
    /\ \E route \in w.routes, id \in w.ids, h \in w.headers :
          task' = [task EXCEPT ![r] = [@ EXCEPT !.pc = "get_file", !.method = "GET",
                                          !.route = route, !.id = id,
                                          !.range_header = h]]
    /\ upstream' = [upstream EXCEPT ![r].get_file = @ + 1]
    /\ UNCHANGED <<response, body>>

\* db.get_file returns (or raises); the handler runs up to its await of
\* bot.get_messages.
GetFileReturn(r) ==
    /\ task[r].pc = "get_file"
    /\ \E raises \in BOOLEAN :
          IF raises
          THEN /\ Return(r, ServerErrorOf("Exception"))
               /\ upstream' = [upstream EXCEPT ![r].lookup = "raised"]
          ELSE LET file_data == DB[task[r].id]
                   returned == IF file_data.found THEN "record" ELSE "None"
               IN  IF NotFound(file_data)
                   THEN /\ task' = [task EXCEPT ![r] = [@ EXCEPT !.pc = "done",
                                                           !.file_data = file_data]]
                        /\ response' = [response EXCEPT ![r] = NotFoundResponse]
                        /\ upstream' = [upstream EXCEPT ![r].lookup = returned]
                   ELSE IF MsgIdRaises(file_data)
                   THEN /\ task' = [task EXCEPT ![r] = [@ EXCEPT !.pc = "done",
                                                           !.file_data = file_data]]
                        /\ response' = [response EXCEPT ![r] = ServerErrorOf("TypeError")]
                        /\ upstream' = [upstream EXCEPT ![r].lookup = returned]
                   ELSE /\ task' = [task EXCEPT ![r] =
                               [@ EXCEPT !.pc = "get_messages",
                                         !.file_data = file_data,
                                         !.msg_id = MsgRef(file_data).val]]
                        /\ upstream' = [upstream EXCEPT ![r] =
                               [@ EXCEPT !.lookup = returned,
                                         !.get_messages = @ + 1]]
                        /\ UNCHANGED response
    /\ UNCHANGED body

\* bot.get_messages returns, or it (or reading the media off the message)
\* raises: the live properties, or the stored ones.
GetMessagesReturn(r) ==
    /\ task[r].pc = "get_messages"
    /\ \E ok \in BOOLEAN :
          LET meta == IF ok THEN LiveMeta(Media(task[r].msg_id))
                      ELSE FallbackMeta(task[r].file_data)
          IN  task' = [task EXCEPT ![r] =
                  [@ EXCEPT !.pc = "range",
                            !.live = IF ok THEN "ok" ELSE "failed",
                            !.msg = meta.msg,
                            !.file_size = meta.file_size,
                            !.file_name = meta.file_name,
                            !.mime_type = meta.mime_type]]
    /\ UNCHANGED <<response, body, upstream>>

\* STEP 2: range handling and strict validation.
ValidateRange(r) ==
    /\ task[r].pc = "range"
    /\ LET p == ParseRange(task[r].range_header, task[r].file_size)
       IN  IF p.raises
           THEN /\ task' = [task EXCEPT ![r] = [@ EXCEPT !.pc = "done", !.parsed = TRUE]]
                /\ response' = [response EXCEPT ![r] = ServerErrorOf("ValueError")]
           ELSE IF Unsatisfiable(p.from_bytes, p.until_bytes, task[r].file_size)
           THEN /\ task' = [task EXCEPT ![r] =
                       [@ EXCEPT !.pc = "done", !.parsed = TRUE,
                                 !.from_bytes = p.from_bytes,
                                 !.until_bytes = p.until_bytes]]
                /\ response' = [response EXCEPT ![r] =
                       RangeNotSatisfiable(task[r].file_size)]
           ELSE /\ task' = [task EXCEPT ![r] =
                       [@ EXCEPT !.pc = "headers", !.parsed = TRUE,
                                 !.from_bytes = p.from_bytes,
                                 !.until_bytes = p.until_bytes]]
                /\ UNCHANGED response
    /\ UNCHANGED <<body, upstream>>

\* req_length, the headers, and the web.Response whose body is media_streamer().
BuildResponse(r) ==
    /\ task[r].pc = "headers"
    /\ task' = [task EXCEPT ![r] =
           [@ EXCEPT !.pc = "responded",
                     !.req_length = ReqLength(task[r].from_bytes, task[r].until_bytes)]]
    /\ response' = [response EXCEPT ![r] =
           Response(StreamStatus(task[r].range_header), "media_streamer",
                    cors_headers, ContentHeaders(task[r]))]
    /\ UNCHANGED <<body, upstream>>

\* bot.stream_media(message_to_stream, offset=from_bytes, limit=req_length)
StreamArgs(t) == [offset |-> t.from_bytes, limit |-> t.req_length]

\* Mutant of Yield: the chunk is put in front of the body.
YieldInFront(out, chunk) == <<chunk>> \o out

\* `yield chunk`: the chunk is the next one of the response body.
Yield(out, chunk) == Append(out, chunk)

\* total_yielded = 0 and the call of bot.stream_media; the generator then
\* awaits the first chunk.
OpenStream(r) ==
    /\ task' = [task EXCEPT ![r] = [@ EXCEPT !.pc = "stream_media",
                                       !.message_to_stream = "Message",
                                       !.total_yielded = 0]]
    /\ upstream' = [upstream EXCEPT ![r] =
           [@ EXCEPT !.stream_media = @ + 1,
                     !.offset = StreamArgs(task[r]).offset,
                     !.limit = StreamArgs(task[r]).limit]]

\* Mutant of StartStreamer: the message is fetched again whatever msg is.
StartStreamerAlwaysReopen(r) ==
    /\ task[r].pc = "responded"
    /\ task' = [task EXCEPT ![r] = [@ EXCEPT !.pc = "reopen"]]
    /\ upstream' = [upstream EXCEPT ![r].get_messages = @ + 1]
    /\ UNCHANGED <<response, body>>

\* The transport starts to iterate the body: media_streamer runs up to its
\* first await (the re-open of the message, or the first chunk).
StartStreamer(r) ==
    /\ task[r].pc = "responded"
    /\ IF task[r].msg = "None"
       THEN /\ task' = [task EXCEPT ![r] = [@ EXCEPT !.pc = "reopen"]]
            /\ upstream' = [upstream EXCEPT ![r].get_messages = @ + 1]
       ELSE OpenStream(r)
    /\ UNCHANGED <<response, body>>

\* Mutant of ReopenReturn: a failed re-open is tried again.
ReopenReturnRetry(r) ==
    /\ task[r].pc = "reopen"
    /\ \E ok \in BOOLEAN :
          IF ok
          THEN OpenStream(r)
          ELSE /\ task' = [task EXCEPT ![r] = [@ EXCEPT !.ended = "reopen failed"]]
               /\ upstream' = [upstream EXCEPT ![r].get_messages = @ + 1]
    /\ UNCHANGED <<response, body>>

\* The bot.get_messages of media_streamer returns or raises.
ReopenReturn(r) ==
    /\ task[r].pc = "reopen"
    /\ \E ok \in BOOLEAN :
          IF ok
          THEN OpenStream(r)
          ELSE /\ task' = [task EXCEPT ![r] = [@ EXCEPT !.pc = "done",
                                                  !.ended = "reopen failed"]]
               /\ UNCHANGED upstream
    /\ UNCHANGED <<response, body>>

\* Mutant of ChunkArrives: the next chunk is fetched while the last one is
\* still with the transport.
ChunkFetchedAhead(r, w) ==
    /\ task[r].pc \in {"stream_media", "yield"}
    /\ Len(upstream[r].delivered) < w.chunks
    /\ \E n \in 0..MaxChunkLen :
          LET chunk == [seq |-> Len(upstream[r].delivered) + 1, len |-> n]
          IN  /\ task' = [task EXCEPT ![r] = [@ EXCEPT !.pc = "yield", !.chunk = chunk]]
              /\ upstream' = [upstream EXCEPT ![r].delivered = Append(@, chunk)]
    /\ UNCHANGED <<response, body>>

\* The chunk producer delivers its next chunk, of any length.  It delivers
\* at most w.chunks chunks, or, when w.endless, chunks without end, of which
\* the histories (delivered, body) keep the first w.chunks.
ChunkArrives(r, w) ==
    /\ task[r].pc = "stream_media"
    /\ Len(upstream[r].delivered) < w.chunks \/ w.endless
    /\ \E n \in 0..MaxChunkLen :
          LET kept == Len(upstream[r].delivered) < w.chunks
              chunk == [seq |-> IF kept THEN Len(upstream[r].delivered) + 1
                                ELSE w.chunks + 1,
                        len |-> n]
          IN  /\ task' = [task EXCEPT ![r] = [@ EXCEPT !.pc = "yield", !.chunk = chunk]]
              /\ upstream' = [upstream EXCEPT ![r].delivered =
                     IF kept THEN Append(@, chunk) ELSE @]
    /\ UNCHANGED <<response, body>>

\* The chunk producer is exhausted: the async for ends.
StreamEnds(r) ==
    /\ task[r].pc = "stream_media"
    /\ task' = [task EXCEPT ![r] = [@ EXCEPT !.pc = "done", !.ended = "exhausted"]]
    /\ UNCHANGED <<response, body, upstream>>

\* The chunk producer raises e instead of delivering a chunk.
StreamFails(r, w) ==
    /\ task[r].pc = "stream_media"
    /\ \E e \in w.errors :
          task' = [task EXCEPT ![r] = [@ EXCEPT !.pc = "done", !.ended = e,
                                          !.raised = ~Swallowed(e)]]
    /\ UNCHANGED <<response, body, upstream>>

\* Mutant of YieldChunk: the chunk goes into a buffer that the requests share.
YieldChunkShared(r, w) ==
    /\ task[r].pc = "yield"
    /\ body' = [q \in Reqs |-> Yield(body[q], task[r].chunk)]
    /\ LET total == task[r].total_yielded + task[r].chunk.len
       IN  task' = [task EXCEPT ![r] =
               [@ EXCEPT !.total_yielded = total,
                         !.pc = IF BudgetReached(total, task[r].req_length)
                                THEN "done" ELSE "stream_media",
                         !.ended = IF BudgetReached(total, task[r].req_length)
                                   THEN "break" ELSE ""]]
    /\ UNCHANGED <<response, upstream>>

\* `yield chunk`, then the accounting and the safety break once the
\* transport has taken the chunk.
YieldChunk(r, w) ==
    /\ task[r].pc = "yield"
    /\ body' = [body EXCEPT ![r] =
           IF task[r].chunk.seq <= w.chunks THEN Yield(@, task[r].chunk) ELSE @]
    /\ LET total == task[r].total_yielded + task[r].chunk.len
       IN  task' = [task EXCEPT ![r] =
               [@ EXCEPT !.total_yielded = total,
                         !.pc = IF BudgetReached(total, task[r].req_length)
                                THEN "done" ELSE "stream_media",
                         !.ended = IF BudgetReached(total, task[r].req_length)
                                   THEN "break" ELSE ""]]
    /\ UNCHANGED <<response, upstream>>

\* What reaches media_streamer at the await it is suspended at once the
\* client is gone: it is never resumed, or it is closed (GeneratorExit), or
\* the task is cancelled (CancelledError), or the write error is thrown into
\* it.
Thrown == {"not resumed", "GeneratorExit", "CancelledError", "ConnectionResetError"}

\* Mutant of AfterThrow: the except clause goes on with the loop.
AfterThrowRetry(e) == IF Swallowed(e) THEN "stream_media" ELSE "done"

\* Where media_streamer is after e was thrown in: the bare except of the
\* re-open returns; the except clauses around the loop pass over an Exception
\* and the generator falls off its end; any other one leaves it; none leads
\* back into the loop.
AfterThrow(e) == "done"

\* The client disconnected while media_streamer is suspended at the re-open,
\* at the next chunk or at `yield chunk`; a yielded chunk is not written.
ClientDisconnects(r) ==
    /\ task[r].pc \in {"reopen", "stream_media", "yield"}
    /\ \E e \in Thrown :
          task' = [task EXCEPT ![r] = [@ EXCEPT !.pc = AfterThrow(e),
                                          !.ended = "disconnected"]]
    /\ UNCHANGED <<response, body, upstream>>

\* ------------------------------------------------------- specifications
\* w is the workload: the inputs the clients and the collaborators draw from.
Step(r, w) ==
    \/ OptionsRequest(r, w)
    \/ ApiRequest(r, w)
    \/ ApiGetFileReturn(r)
    \/ StreamRequest(r, w)
    \/ GetFileReturn(r)
    \/ GetMessagesReturn(r)
    \/ ValidateRange(r)
    \/ BuildResponse(r)
    \/ StartStreamer(r)
    \/ ReopenReturn(r)
    \/ ChunkArrives(r, w)
    \/ StreamEnds(r)
    \/ StreamFails(r, w)
    \/ YieldChunk(r, w)
    \/ ClientDisconnects(r)

Workload ==
    [routes |-> StreamRoutes, ids |-> Ids, headers |-> RangeHeaders,
     errors |-> ErrorClasses, chunks |-> MaxChunks, endless |-> FALSE]

\* One request, over the whole workload.
Next == Step(1, Workload)

Spec == Init /\ [][Next]_vars

\* The workload of the two-request runs: one route, four Range headers, one
\* error class, one chunk.
PairWorkload ==
    [routes |-> {"/watch/"}, ids |-> Ids,
     headers |-> {Absent, Closed(0, 1), Open(1), Suffix(1)},
     errors |-> {"OSError"}, chunks |-> 1, endless |-> FALSE]

\* Two requests, interleaved at their awaits.
NextPair == \E r \in Reqs : Step(r, PairWorkload)

SpecPair == Init /\ [][NextPair]_vars

\* The workload of the runs to completion: a chunk producer that goes on
\* delivering chunks, empty ones too, after its chunks of content.
LiveWorkload ==
    [routes |-> {"/watch/"}, ids |-> Ids,
     headers |-> {Absent, Closed(0, 1), Open(1), Suffix(1)},
     errors |-> {"OSError"}, chunks |-> 1, endless |-> TRUE]

NextLive == Step(1, LiveWorkload)

\* Every await of the event loop returns in the end: a step that can be
\* taken is taken.
SpecLive == Init /\ [][NextLive]_vars /\ WF_vars(NextLive)

\* --------------------------------------------------------------- claims
RECURSIVE Bytes(_)
\* The number of bytes of a sequence of chunks.
Bytes(chunks) == IF chunks = <<>> THEN 0 ELSE Head(chunks).len + Bytes(Tail(chunks))

Min(a, b) == IF a < b THEN a ELSE b

\* The handler returned a response for request r.
Responded(r) == response[r].status # 0

\* Request r is a GET on a streaming route whose Range was parsed and validated.
Validated(r) == task[r].method = "GET" /\ task[r].parsed

\* C1: the bytes written to the response body never exceed the byte budget
\* req_length, and when the stream is over they are min(req_length, bytes the
\* upstream delivered), whatever chunks the upstream delivers.
C1_BudgetExact ==
    \A r \in Reqs :
        upstream[r].stream_media > 0 =>
            /\ Bytes(body[r]) <= task[r].req_length
            /\ task[r].pc = "done" =>
                   Bytes(body[r]) = Min(task[r].req_length, Bytes(upstream[r].delivered))

\* C2: a request for a resolved size file_size with Range bytes=a-b,
\* 0 <= a <= b < file_size, selects [a, b], is answered 206 with
\* Content-Length b-a+1 and Content-Range "bytes a-b/file_size", and its
\* stream is opened at offset a with limit b-a+1.
C2_ValidRange ==
    \A r \in Reqs : \A a, b \in 0..(MaxNum + 1) :
        (/\ Validated(r)
         /\ task[r].range_header = Closed(a, b)
         /\ a <= b /\ b < task[r].file_size) =>
            /\ task[r].from_bytes = a /\ task[r].until_bytes = b
            /\ task[r].pc # "headers" =>
                   /\ response[r].status = 206
                   /\ response[r].content.ContentLength = Str(b - a + 1)
                   /\ response[r].content.ContentRange =
                          BytesSp \o Str(a) \o <<"-">> \o Str(b) \o <<"/">>
                              \o Str(task[r].file_size)
            /\ upstream[r].stream_media > 0 =>
                   upstream[r].offset = a /\ upstream[r].limit = b - a + 1

\* C2 witness: f1 (3 bytes), Range bytes=1-2: 206, Content-Length 2,
\* Content-Range "bytes 1-2/3", streamed from offset 1 with limit 2.
C2_Witness ==
    \E r \in Reqs :
        /\ task[r].id = "f1" /\ task[r].range_header = Closed(1, 2)
        /\ response[r].status = 206
        /\ response[r].content.ContentLength = <<"2">>
        /\ response[r].content.ContentRange =
               <<"b", "y", "t", "e", "s", " ", "1", "-", "2", "/", "3">>
        /\ upstream[r].stream_media = 1
        /\ upstream[r].offset = 1 /\ upstream[r].limit = 2

\* C3: with the Range header absent or empty and a resolved size
\* file_size > 0 the handler selects [0, file_size-1] and answers 200, never
\* 206, with Content-Length file_size.
C3_FullContent ==
    \A r \in Reqs :
        (/\ Validated(r)
         /\ ~task[r].range_header.present \/ task[r].range_header.text = <<>>
         /\ task[r].file_size > 0) =>
            /\ task[r].from_bytes = 0
            /\ task[r].until_bytes = task[r].file_size - 1
            /\ task[r].pc # "headers" =>
                   /\ response[r].status = 200
                   /\ response[r].content.ContentLength = Str(task[r].file_size)

\* C3 witness: an empty Range header on f1 (3 bytes) answered 200 with
\* Content-Length 3.
C3_Witness ==
    \E r \in Reqs :
        /\ task[r].id = "f1" /\ task[r].range_header = Hdr(<<>>)
        /\ response[r].status = 200
        /\ response[r].content.ContentLength = <<"3">>
        /\ response[r].content.ContentRange =
               <<"b", "y", "t", "e", "s", " ", "0", "-", "2", "/", "3">>

\* The handler is past its validation with a 200/206 in the making or made.
Continuing(r) ==
    \/ task[r].pc \in {"headers", "responded", "reopen", "stream_media", "yield"}
    \/ task[r].pc = "done" /\ task[r].parsed /\ response[r].status \in {200, 206}

C5_Malformed416 ==
    \A r \in Reqs :
        (Validated(r) /\ task[r].range_header \in Malformed) =>
            /\ response[r].status = 416
            /\ response[r].content.ContentRange =
                   BytesSp \o <<"*", "/">> \o Str(task[r].file_size)

\* C6: when db.get_file returns no record for a GET on /api/file, /stream,
\* /watch or /dl, the answer is 404 and the request made no upstream message
\* fetch, no Range parse and no chunk stream.
C6_UnknownId ==
    \A r \in Reqs :
        (task[r].method = "GET" /\ upstream[r].lookup = "None") =>
            /\ task[r].pc = "done"
            /\ response[r].status = 404
            /\ upstream[r].get_messages = 0
            /\ upstream[r].stream_media = 0
            /\ ~task[r].parsed
            /\ body[r] = <<>>

\* C6 witness: GET /dl/nx with a Range header answered 404.
C6_Witness ==
    \E r \in Reqs :
        /\ task[r].route = "/dl/" /\ task[r].id = "nx"
        /\ task[r].range_header = Closed(0, 1)
        /\ upstream[r].lookup = "None"
        /\ response[r].status = 404

\* C7: when the live fetch of a known id failed, the request is never
\* answered 404, is answered 500 only for a Range header that does not parse,
\* reaches the range validation before it ends, uses the stored size and name
\* (0 and "video.mp4" when absent), and has no message, so that the streamer
\* fetches it again before it opens the stream.
C7_Fallback ==
    \A r \in Reqs :
        task[r].live = "failed" =>
            LET stored == DB[task[r].id]
            IN  /\ response[r].status # 404
                /\ response[r].status = 500 => task[r].range_header \in Malformed
                /\ task[r].pc = "done" => task[r].parsed
                /\ task[r].file_size =
                       IF "file_size" \in stored.keys THEN stored.file_size ELSE 0
                /\ task[r].file_name =
                       IF "file_name" \in stored.keys THEN stored.file_name
                       ELSE "video.mp4"
                /\ task[r].msg = "None"
                /\ task[r].pc = "reopen" => upstream[r].get_messages = 2
                /\ upstream[r].stream_media > 0 => upstream[r].get_messages = 2

\* C7 witness: the live fetch of f1 failed, the request was answered 206 from
\* the stored size 3, and the streamer re-opened the message and wrote chunks.
C7_Witness ==
    \E r \in Reqs :
        /\ task[r].id = "f1" /\ task[r].live = "failed"
        /\ response[r].status = 206
        /\ task[r].file_size = 3
        /\ upstream[r].get_messages = 2
        /\ body[r] # <<>>

\* C8: a 200/206 response, once returned, is never changed; no exception of
\* the chunk producer or of the re-open leaves media_streamer; and a stream
\* ended by such a failure has written fewer bytes than Content-Length.
C8_StatusCommitted ==
    [][\A r \in Reqs :
          /\ response[r].status \in {200, 206} => response'[r] = response[r]
          /\ ~task'[r].raised
          /\ task'[r].ended \in ErrorClasses \cup {"reopen failed"} =>
                 /\ task'[r].pc = "done"
                 /\ response'[r].status \in {200, 206}
                 /\ Bytes(body'[r]) < IntVal(response'[r].content.ContentLength)]_vars

\* C8 witness: a 206 stream that an exception outside the named classes ended
\* after a chunk was written.
C8_Witness ==
    \E r \in Reqs :
        /\ task[r].ended = "Exception"
        /\ response[r].status = 206
        /\ body[r] # <<>>
        /\ ~task[r].raised

IsPrefix(s, t) == Len(s) <= Len(t) /\ SubSeq(t, 1, Len(s)) = s

\* C9: the chunks written to the body are a prefix of the chunks the
\* producer delivered, at most the last delivered chunk is not written yet,
\* and the producer is opened at most once per request.
C9_ForwardOnly ==
    \A r \in Reqs :
        /\ IsPrefix(body[r], upstream[r].delivered)
        /\ Len(upstream[r].delivered) <= Len(body[r]) + 1
        /\ upstream[r].stream_media <= 1

\* C9 witness: two chunks written in delivery order, then the producer failed.
C9_Witness ==
    \E r \in Reqs :
        /\ task[r].ended \in ErrorClasses
        /\ Len(body[r]) >= 2
        /\ body[r] = upstream[r].delivered
        /\ body[r][1].seq = 1 /\ body[r][2].seq = 2

\* Two GETs of the same id with the same Range header on the same route,
\* both past the metadata step and both answered.
SameRequest(r1, r2) ==
    /\ r1 # r2
    /\ task[r1].method = "GET" /\ task[r2].method = "GET"
    /\ task[r1].route \in StreamRoutes /\ task[r1].route = task[r2].route
    /\ task[r1].id = task[r2].id
    /\ task[r1].range_header = task[r2].range_header
    /\ task[r1].live # "" /\ task[r2].live # ""
    /\ Responded(r1) /\ Responded(r2)

SameHeaders(r1, r2) ==
    /\ response[r1].status = response[r2].status
    /\ response[r1].content.ContentLength = response[r2].content.ContentLength
    /\ response[r1].content.ContentRange = response[r2].content.ContentRange
    /\ response[r1].content.ContentType = response[r2].content.ContentType

\* C10 as stated: the same (id, Range) on the same route gives the same
\* status, Content-Length, Content-Range and Content-Type over every outcome
\* of the live fetch of each request.
C10_Idempotent ==
    \A r1, r2 \in Reqs : SameRequest(r1, r2) => SameHeaders(r1, r2)

\* The record of id stores the size of its upstream object, and the type of
\* that object is unset or "video/mp4".
StoredAgrees(id) ==
    LET stored == DB[id]
        media == Media(MsgRef(stored).val)
    IN  /\ "file_size" \in stored.keys
        /\ stored.file_size = media.file_size
        /\ media.mime_type \in {"", "video/mp4"}

\* C10 amended: the same (id, Range) on the same route gives the same status,
\* Content-Length, Content-Range and Content-Type when the live fetch has the
\* same outcome on both requests, or when the record stores the size of the
\* upstream object and the object's type is unset or "video/mp4".
C10_IdempotentSamePath ==
    \A r1, r2 \in Reqs :
        (/\ SameRequest(r1, r2)
         /\ task[r1].live = task[r2].live \/ StoredAgrees(task[r1].id)) =>
            SameHeaders(r1, r2)

\* C10 witness: f4 with bytes=0-1, fetched live on one request and from the
\* record on the other, both answered 206 with "bytes 0-1/2".
C10_Witness ==
    \E r1, r2 \in Reqs :
        /\ SameRequest(r1, r2)
        /\ task[r1].id = "f4" /\ task[r1].range_header = Closed(0, 1)
        /\ task[r1].live = "ok" /\ task[r2].live = "failed"
        /\ response[r1].status = 206 /\ response[r2].status = 206
        /\ response[r2].content.ContentRange =
               <<"b", "y", "t", "e", "s", " ", "0", "-", "1", "/", "2">>

\* C11: Range bytes=a- with 0 <= a < file_size selects [a, file_size-1]:
\* 206 with Content-Range "bytes a-(file_size-1)/file_size" and
\* Content-Length file_size-a.
C11_OpenEnded ==
    \A r \in Reqs : \A a \in 0..MaxNum :
        (/\ Validated(r)
         /\ task[r].range_header = Open(a)
         /\ a < task[r].file_size) =>
            /\ task[r].from_bytes = a
            /\ task[r].until_bytes = task[r].file_size - 1
            /\ task[r].pc # "headers" =>
                   /\ response[r].status = 206
                   /\ response[r].content.ContentLength = Str(task[r].file_size - a)
                   /\ response[r].content.ContentRange =
                          BytesSp \o Str(a) \o <<"-">> \o Str(task[r].file_size - 1)
                              \o <<"/">> \o Str(task[r].file_size)

\* C11 witness: f1 (3 bytes), Range bytes=1-: 206, "bytes 1-2/3", length 2.
C11_Witness ==
    \E r \in Reqs :
        /\ task[r].id = "f1" /\ task[r].range_header = Open(1)
        /\ response[r].status = 206
        /\ response[r].content.ContentLength = <<"2">>
        /\ response[r].content.ContentRange =
               <<"b", "y", "t", "e", "s", " ", "1", "-", "2", "/", "3">>

\* The static CORS policy, as the clients expect it.
StaticCors ==
    [AllowOrigin |-> "*",
     AllowMethods |-> "GET, POST, OPTIONS, HEAD",
     AllowHeaders |-> "Content-Type, Range, User-Agent, X-Requested-With",
     ExposeHeaders |-> "Content-Length, Content-Range, Content-Disposition",
     MaxAge |-> "86400"]

\* The record of request r carries neither file_id nor message_id.
NoMessageRef(r) ==
    LET stored == DB[task[r].id]
    IN  /\ upstream[r].lookup = "record"
        /\ "file_id" \notin stored.keys \/ stored.file_id = 0
        /\ "message_id" \notin stored.keys

\* C12: an exception raised in stream_handler before the response is
\* returned (the lookup store raises, the record carries no message
\* reference, the Range header does not parse) gives a terminal 500 with the
\* error detail and the CORS headers, and no chunk stream is started.
C12_InternalError ==
    \A r \in Reqs :
        (/\ task[r].method = "GET" /\ task[r].route \in StreamRoutes
         /\ \/ upstream[r].lookup = "raised"
            \/ NoMessageRef(r)
            \/ task[r].parsed /\ task[r].range_header \in Malformed) =>
            /\ task[r].pc = "done"
            /\ response[r].status = 500
            /\ response[r].cors = StaticCors
            /\ response[r].body =
                   IF upstream[r].lookup = "raised" THEN "Server Error: Exception"
                   ELSE IF NoMessageRef(r) THEN "Server Error: TypeError"
                   ELSE "Server Error: ValueError"
            /\ upstream[r].stream_media = 0
            /\ upstream[r].delivered = <<>>
            /\ body[r] = <<>>

\* C12 witness: GET /stream/f3 (a record without file_id and message_id)
\* answered 500 with the TypeError and the CORS headers.
C12_Witness ==
    \E r \in Reqs :
        /\ task[r].route = "/stream/" /\ task[r].id = "f3"
        /\ response[r].status = 500
        /\ response[r].body = "Server Error: TypeError"
        /\ response[r].cors.AllowOrigin = "*"
        /\ upstream[r].get_messages = 0

\* C13: OPTIONS on /stream, /watch and /dl is answered 200 with the static
\* CORS headers, no content header and an empty body for every id, without
\* any call to the lookup store or to the upstream.
C13_Preflight ==
    \A r \in Reqs :
        task[r].method = "OPTIONS" =>
            /\ task[r].pc = "done"
            /\ response[r].status = 200
            /\ response[r].cors = StaticCors
            /\ response[r].body = ""
            /\ response[r].content = NoContent
            /\ upstream[r].get_file = 0
            /\ upstream[r].get_messages = 0
            /\ upstream[r].stream_media = 0
            /\ body[r] = <<>>

\* C13 witness: OPTIONS /watch/nx, an id without a record, answered 200.
C13_Witness ==
    \E r \in Reqs :
        /\ task[r].method = "OPTIONS"
        /\ task[r].route = "/watch/" /\ task[r].id = "nx"
        /\ response[r].status = 200
        /\ response[r].cors.AllowMethods = "GET, POST, OPTIONS, HEAD"

\* C14: total_yielded counts the bytes written, and once it reaches or
\* exceeds req_length the streamer is over by its break: no further chunk is
\* delivered by the producer and none is written.
C14_StopAtBudget ==
    [][\A r \in Reqs :
          /\ upstream'[r].stream_media > 0 =>
                 task'[r].total_yielded = Bytes(body'[r])
          /\ (upstream'[r].stream_media > 0
                 /\ task'[r].total_yielded >= task'[r].req_length) =>
                 task'[r].pc = "done" /\ task'[r].ended = "break"
          /\ (upstream[r].stream_media > 0
                 /\ task[r].total_yielded >= task[r].req_length) =>
                 /\ upstream'[r].delivered = upstream[r].delivered
                 /\ body'[r] = body[r]]_vars

\* C14 witness: the budget of 1 byte reached with the first chunk, while the
\* producer could deliver more.
C14_Witness ==
    \E r \in Reqs :
        /\ task[r].ended = "break"
        /\ task[r].req_length = 1 /\ task[r].total_yielded = 1
        /\ Len(upstream[r].delivered) = 1
        /\ Len(upstream[r].delivered) < MaxChunks

\* C15: the producer is asked for a chunk only when every chunk it delivered
\* was taken by the transport, so the chunks delivered exceed the chunks
\* written by at most one, however long the transport takes.
C15_PullDriven ==
    \A r \in Reqs :
        /\ Len(upstream[r].delivered) - Len(body[r]) \in {0, 1}
        /\ task[r].pc = "stream_media" =>
               Len(upstream[r].delivered) = Len(body[r])
        /\ task[r].pc = "yield" =>
               Len(upstream[r].delivered) = Len(body[r]) + 1

\* C15 witness: the second chunk is at the yield, the first one was written.
C15_Witness ==
    \E r \in Reqs :
        /\ task[r].pc = "yield"
        /\ Len(body[r]) = 1
        /\ Len(upstream[r].delivered) = 2

\* C16: when the live fetch left no message and the re-open in
\* media_streamer fails too, the streamer is over at once with an empty body,
\* after exactly one re-open, without a call of the chunk producer, and the
\* 200/206 stands.
C16_ReopenFails ==
    \A r \in Reqs :
        /\ task[r].pc = "reopen" =>
               upstream[r].get_messages = 2 /\ task[r].ended = ""
        /\ task[r].ended = "reopen failed" =>
               /\ task[r].pc = "done"
               /\ task[r].live = "failed"
               /\ body[r] = <<>>
               /\ upstream[r].get_messages = 2
               /\ upstream[r].stream_media = 0
               /\ upstream[r].delivered = <<>>
               /\ response[r].status \in {200, 206}
               /\ ~task[r].raised

\* C16 witness: a 206 whose re-open failed.
C16_Witness ==
    \E r \in Reqs :
        /\ task[r].ended = "reopen failed"
        /\ response[r].status = 206
        /\ upstream[r].get_messages = 2
        /\ body[r] = <<>>

\* C17: bot.get_messages is called at most twice per request, the second
\* time only by media_streamer after the live fetch of the handler failed;
\* after a live fetch that succeeded the stream is opened on its message
\* without a second call.
C17_FetchAtMostTwice ==
    \A r \in Reqs :
        /\ upstream[r].get_messages <= 2
        /\ upstream[r].get_messages = 2 =>
               /\ task[r].live = "failed"
               /\ Responded(r)
               /\ task[r].pc \in {"reopen", "stream_media", "yield", "done"}
        /\ task[r].live = "ok" =>
               /\ upstream[r].get_messages = 1
               /\ task[r].msg = "Message"
               /\ upstream[r].stream_media > 0 => task[r].message_to_stream = "Message"

\* C17 witness: a stream opened on the message of the live fetch, one call.
C17_Witness ==
    \E r \in Reqs :
        /\ task[r].live = "ok"
        /\ upstream[r].stream_media = 1
        /\ upstream[r].get_messages = 1
        /\ body[r] # <<>>

\* C18: after the client disconnected media_streamer is over: the producer
\* is not asked for a chunk again, no call is repeated and nothing more is
\* written.
C18_Disconnect ==
    [][\A r \in Reqs :
          /\ task'[r].ended = "disconnected" => task'[r].pc = "done"
          /\ task[r].ended = "disconnected" =>
                 /\ task'[r] = task[r]
                 /\ upstream'[r] = upstream[r]
                 /\ body'[r] = body[r]
                 /\ response'[r] = response[r]]_vars

\* C18 witness: the client left at the second chunk, with more to deliver.
C18_Witness ==
    \E r \in Reqs :
        /\ task[r].ended = "disconnected"
        /\ Len(body[r]) = 1
        /\ Len(upstream[r].delivered) = 2
        /\ Len(upstream[r].delivered) < MaxChunks
        /\ task[r].total_yielded < task[r].req_length

\* C19: a step of one request leaves the state of the other request alone,
\* and what a request looked up, asked of the producer and wrote comes from
\* its own id and Range.
C19_Independent ==
    /\ [](\A r \in Reqs :
             /\ upstream[r].lookup = "record" =>
                    task[r].file_data = DB[task[r].id]
             /\ upstream[r].stream_media > 0 =>
                    /\ upstream[r].offset = StreamArgs(task[r]).offset
                    /\ upstream[r].limit = StreamArgs(task[r]).limit
             /\ IsPrefix(body[r], upstream[r].delivered))
    /\ [][\E r \in Reqs : \A q \in Reqs \ {r} :
             /\ task'[q] = task[q]
             /\ response'[q] = response[q]
             /\ body'[q] = body[q]
             /\ upstream'[q] = upstream[q]]_vars

\* C19 witness: two requests of different ids and offsets, each with a chunk
\* at its yield.
C19_Witness ==
    /\ \A r \in Reqs : task[r].pc = "yield"
    /\ task[1].id # task[2].id
    /\ upstream[1].offset # upstream[2].offset

\* C20 as stated: every GET that arrived reaches its terminal state, also
\* with a producer that goes on delivering chunks, empty ones too.
C20_Terminates ==
    (task[1].method = "GET") ~> (task[1].pc = "done")

====
